---- MODULE Spec2Model ----
(***************************************************************************)
(* Model of scripts/gen-docs.py: the recursive Markdown renderer thing     *)
(* and the script body that loads the "docs" object, deletes its           *)
(* "description" key and renders the rest at heading depth 4.              *)
(*                                                                         *)
(* Text is modelled as sequences of one-character strings, so that         *)
(* str.replace, str.title, "#"*i and the f-string are computed.            *)
(* A document (a JSON object) is a sequence of node records in document    *)
(* order;  lvl  is the nesting level of a key (1 = key of the docs object) *)
(* and the children of a mapping are the nodes one level deeper that       *)
(* follow it before the next node of its own or a shallower level.         *)
(***************************************************************************)
EXTENDS Integers, Sequences, FiniteSets, TLC

\* Bound: the number of keys (at all levels together) in the loaded docs object.
MaxNodes == 4

----------------------------------------------------------------------------
\* Text

Lowers == <<"a","b","c","d","e","f","g","h","i","j","k","l","m",
            "n","o","p","q","r","s","t","u","v","w","x","y","z">>

Uppers == <<"A","B","C","D","E","F","G","H","I","J","K","L","M",
            "N","O","P","Q","R","S","T","U","V","W","X","Y","Z">>

IsLower(c) == \E n \in DOMAIN Lowers : Lowers[n] = c

IsUpper(c) == \E n \in DOMAIN Uppers : Uppers[n] = c

IsCased(c) == IsLower(c) \/ IsUpper(c)

ToUpper(c) == IF IsLower(c) THEN Uppers[CHOOSE n \in DOMAIN Lowers : Lowers[n] = c] ELSE c

ToLower(c) == IF IsUpper(c) THEN Lowers[CHOOSE n \in DOMAIN Uppers : Uppers[n] = c] ELSE c

\* k.replace("_", " ")
Replace(s) == [n \in DOMAIN s |-> IF s[n] = "_" THEN " " ELSE s[n]]

\* str.title(): a cased character is upper-cased when it starts a word (the
\* character before it is not cased) and lower-cased otherwise.
Title(s) ==
    [n \in DOMAIN s |->
        IF n > 1 /\ IsCased(s[n - 1]) THEN ToLower(s[n]) ELSE ToUpper(s[n])]

\* "#" * i
Hashes(i) == [n \in 1..i |-> "#"]

\* Faulty variant of HeadingText: one heading marker more than the depth
HeadingTextOneMore(i, k) == Hashes(i + 1) \o <<" ">> \o Title(Replace(k))

\* print("#"*i, k.replace("_", " ").title()): the two arguments joined by a space
HeadingText(i, k) == Hashes(i) \o <<" ">> \o Title(Replace(k))

\* The grave accent, which a TLA+ string literal cannot hold, as a character of its own.
Grave == "GRAVE"

\* The f-string of the bullet: "- ", the key between grave accents, ": ", the value
BulletText(k, v) == <<"-", " ", Grave>> \o k \o <<Grave, ":", " ">> \o v

\* print(): an empty line
BlankText == <<>>

----------------------------------------------------------------------------
\* Input documents

KeyDescription == <<"d","e","s","c","r","i","p","t","i","o","n">>

KeyPool == << <<"s","e","t","t","i","n","g","s">>,
              <<"t","i","m","e","o","u","t">>,
              <<"a","p","i","_","d","o","c","s">> >>

\* The key of the pos-th ordinary key of a mapping at level lvl: keys of one
\* mapping are pairwise different.
KeyOf(lvl, pos) ==
    KeyPool[((lvl + pos - 2) % Len(KeyPool)) + 1]
        \o [n \in 1..((pos - 1) \div Len(KeyPool)) |-> "x"]

StrValue == <<"3","0","s">>

ListValues == { <<>>, << <<"l","i","n","e"," ","o","n","e">>,
                         <<"l","i","n","e"," ","t","w","o">> >> }

\* What isinstance tells of a value: a mapping, a string, a list, or none of
\* these (a number, a boolean, null).
Types == {"dict", "str", "list", "other"}

Supported == {"dict", "str", "list"}

\* The deepest level a key appended to document d can have.
MaxLvl(d) ==
    IF d = <<>> THEN 1
    ELSE IF d[Len(d)].t = "dict" THEN d[Len(d)].lvl + 1 ELSE d[Len(d)].lvl

\* Position in d of the mapping that holds the node at position j (0: docs itself).
ParentPos(d, j) ==
    IF d[j].lvl = 1 THEN 0
    ELSE CHOOSE m \in 1..(j - 1) :
            /\ d[m].lvl = d[j].lvl - 1
            /\ \A n \in (m + 1)..(j - 1) : d[n].lvl >= d[j].lvl

\* Number of ordinary keys already in the mapping a level-lvl key appended to d joins.
SiblingsAtEnd(d, lvl) ==
    Cardinality({ j \in DOMAIN d :
        /\ d[j].lvl = lvl
        /\ d[j].k # KeyDescription
        /\ \A n \in (j + 1)..Len(d) : d[n].lvl >= lvl })

HasDescription(d) == \E j \in DOMAIN d : d[j].lvl = 1 /\ d[j].k = KeyDescription

Values(t) ==
    IF t = "str" THEN { [s |-> StrValue, l |-> <<>>] }
    ELSE IF t = "list" THEN { [s |-> <<>>, l |-> ls] : ls \in ListValues }
    ELSE { [s |-> <<>>, l |-> <<>>] }

\* The nodes that can follow document d.
NextNodes(d) ==
    UNION { UNION { { [id |-> Len(d) + 1, lvl |-> lvl, t |-> t, k |-> k, s |-> v.s, l |-> v.l] :
                        k \in { KeyOf(lvl, SiblingsAtEnd(d, lvl) + 1) }
                                \cup (IF lvl = 1 /\ ~HasDescription(d)
                                      THEN {KeyDescription} ELSE {}),
                        v \in Values(t) } :
                    t \in Types } :
            lvl \in 1..MaxLvl(d) }

----------------------------------------------------------------------------
\* Program state

VARIABLES
    x,          \* the docs object (global x of the with-block)
    docs,       \* history: the docs object as it was loaded, before the del
    last,       \* the module global last: "None", "dict", "str" or "list"
    stack,      \* active calls of thing, innermost last: the mapping x (node, 0 for the
                \* root object), the depth i, its x.items() and how many were taken (pos)
    out,        \* lines printed so far on standard output
    pc,         \* position of the script
    maxActive,  \* history: greatest number of simultaneously active calls of thing
    run,        \* history: 1 in the first render pass, 2 in a second one
    x1,         \* history: the object the first pass rendered, once a second pass began
    out1        \* history: the lines the first pass printed, once a second pass began

vars == <<x, docs, last, stack, out, pc, maxActive, run, x1, out1>>

hist == <<run, x1, out1>>

\* Starting depth of the root call thing(x, 4)
StartDepth == 4

PosOfId(d, id) == CHOOSE j \in DOMAIN d : d[j].id = id

\* Positions in d of the subtree rooted at position j (j and everything nested in it).
SubtreePos(d, j) ==
    { n \in j..Len(d) : \A m \in (j + 1)..n : d[m].lvl > d[j].lvl }

RECURSIVE SelectPos(_, _)
SelectPos(d, keep) ==
    IF d = <<>> THEN <<>>
    ELSE LET rest == SelectPos(SubSeq(d, 1, Len(d) - 1), keep)
         IN  IF Len(d) \in keep THEN Append(rest, d[Len(d)]) ELSE rest

\* Faulty variant of DelDescription: the del is left out
DelNothing(d) == d

\* del x["description"]: the docs object without its description entry (and
\* without all that the entry holds).
DelDescription(d) ==
    LET j == CHOOSE n \in DOMAIN d : d[n].lvl = 1 /\ d[n].k = KeyDescription
    IN  SelectPos(d, DOMAIN d \ SubtreePos(d, j))

RECURSIVE SortedSeq(_)
SortedSeq(S) ==
    IF S = {} THEN <<>>
    ELSE LET m == CHOOSE a \in S : \A b \in S : a <= b
         IN  <<m>> \o SortedSeq(S \ {m})

\* Faulty variant of Items: the items in reverse insertion order
ItemsReversed(d, id) ==
    LET p == IF id = 0 THEN 0 ELSE PosOfId(d, id)
        ps == SortedSeq({ j \in DOMAIN d : j > p /\ ParentPos(d, j) = p })
    IN  [n \in DOMAIN ps |-> d[ps[Len(ps) + 1 - n]]]

\* x.items() of the mapping with the given id (0: the object passed to the root
\* call), in insertion order.
Items(d, id) ==
    LET p == IF id = 0 THEN 0 ELSE PosOfId(d, id)
        ps == SortedSeq({ j \in DOMAIN d : j > p /\ ParentPos(d, j) = p })
    IN  [n \in DOMAIN ps |-> d[ps[n]]]

\* Faulty variant of NeedsBlank: the blank line after a Section instead of after a leaf
NeedsBlankAfterSection(l) == l = "dict"

\* Faulty variant of NeedsBlank: the test for None left out
NeedsBlankNotSection(l) == l # "dict"

\* last is not None and last != dict
NeedsBlank(l) == l # "None" /\ l # "dict"

\* Faulty variant of ChildDepth: the recursive call at the same depth
ChildDepthSame(i) == i

\* The depth passed to the recursive call: thing(v, i+1)
ChildDepth(i) == i + 1

Line(text, src, kind) == [text |-> text, src |-> src, kind |-> kind]

\* A call thing(x, i) at the start of its for-loop
Call(d, id, i) == [node |-> id, i |-> i, pos |-> 0, items |-> Items(d, id)]

\* The frame of the innermost active call, and the item its for-loop is at.
Top == stack[Len(stack)]

TopItems == Top.items

HasItem == pc = "running" /\ stack # <<>> /\ Top.pos < Len(TopItems)

Cur == TopItems[Top.pos + 1]

Advance == [stack EXCEPT ![Len(stack)].pos = @ + 1]

Init ==
    /\ x = <<>>
    /\ docs = <<>>
    /\ last = "None"
    /\ stack = <<>>
    /\ out = <<>>
    /\ pc = "parsing"
    /\ maxActive = 0
    /\ run = 1
    /\ x1 = <<>>
    /\ out1 = <<>>

\* json.loads(f.read())["docs"] reads one more key of the docs object
ParseKey ==
    /\ pc = "parsing"
    /\ Len(x) < MaxNodes
    /\ \E nd \in NextNodes(x) : x' = Append(x, nd)
    /\ UNCHANGED <<docs, last, stack, out, pc, maxActive, hist>>

\* json.loads(f.read())["docs"] returns the object
Loaded ==
    /\ pc = "parsing"
    /\ docs' = x
    /\ pc' = "loaded"
    /\ UNCHANGED <<x, last, stack, out, maxActive, hist>>

\* del x["description"]
Del ==
    /\ pc = "loaded"
    /\ HasDescription(x)
    /\ x' = DelDescription(x)
    /\ pc' = "stripped"
    /\ UNCHANGED <<docs, last, stack, out, maxActive, hist>>

\* del x["description"] on an object without the key raises KeyError
DelKeyError ==
    /\ pc = "loaded"
    /\ ~HasDescription(x)
    /\ pc' = "error"
    /\ UNCHANGED <<x, docs, last, stack, out, maxActive, hist>>

\* thing(x, 4)
CallThing ==
    /\ pc = "stripped"
    /\ stack' = << Call(x, 0, StartDepth) >>
    /\ maxActive' = 1
    /\ pc' = "running"
    /\ UNCHANGED <<x, docs, last, out, hist>>

\* Faulty variant of IterDict: the heading is printed but the recursive call is left out
IterDictNoCall ==
    /\ HasItem
    /\ Cur.t = "dict"
    /\ out' = out
              \o (IF NeedsBlank(last) THEN << Line(BlankText, Cur.id, "pre") >> ELSE <<>>)
              \o << Line(HeadingText(Top.i, Cur.k), Cur.id, "heading"),
                    Line(BlankText, Cur.id, "post") >>
    /\ last' = "dict"
    /\ stack' = Advance
    /\ UNCHANGED <<x, docs, pc, maxActive, hist>>

\* isinstance(v, dict): optional blank line, heading, blank line, recursive call
IterDict ==
    /\ HasItem
    /\ Cur.t = "dict"
    /\ out' = out
              \o (IF NeedsBlank(last) THEN << Line(BlankText, Cur.id, "pre") >> ELSE <<>>)
              \o << Line(HeadingText(Top.i, Cur.k), Cur.id, "heading"),
                    Line(BlankText, Cur.id, "post") >>
    /\ last' = "dict"
    /\ stack' = Append(Advance, Call(x, Cur.id, ChildDepth(Top.i)))
    /\ maxActive' = IF Len(stack) + 1 > maxActive THEN Len(stack) + 1 ELSE maxActive
    /\ UNCHANGED <<x, docs, pc, hist>>

\* Faulty variant of IterStr: the bullet is printed but last is not set
IterStrNoLast ==
    /\ HasItem
    /\ Cur.t = "str"
    /\ out' = Append(out, Line(BulletText(Cur.k, Cur.s), Cur.id, "bullet"))
    /\ stack' = Advance
    /\ UNCHANGED <<x, docs, last, pc, maxActive, hist>>

\* isinstance(v, str): one bullet line
IterStr ==
    /\ HasItem
    /\ Cur.t = "str"
    /\ out' = Append(out, Line(BulletText(Cur.k, Cur.s), Cur.id, "bullet"))
    /\ last' = "str"
    /\ stack' = Advance
    /\ UNCHANGED <<x, docs, pc, maxActive, hist>>

\* isinstance(v, list): every element on its own line
IterList ==
    /\ HasItem
    /\ Cur.t = "list"
    /\ out' = out \o [n \in DOMAIN Cur.l |-> Line(Cur.l[n], Cur.id, "verbatim")]
    /\ last' = "list"
    /\ stack' = Advance
    /\ UNCHANGED <<x, docs, pc, maxActive, hist>>

\* none of the three branches: the loop goes on to the next item
IterOther ==
    /\ HasItem
    /\ Cur.t \notin Supported
    /\ stack' = Advance
    /\ UNCHANGED <<x, docs, last, out, pc, maxActive, hist>>

\* the for-loop is exhausted: the call returns
Return ==
    /\ pc = "running"
    /\ stack # <<>>
    /\ Top.pos = Len(TopItems)
    /\ stack' = SubSeq(stack, 1, Len(stack) - 1)
    /\ pc' = IF Len(stack) = 1 THEN "done" ELSE "running"
    /\ UNCHANGED <<x, docs, last, out, maxActive, hist>>

Next ==
    \/ ParseKey
    \/ Loaded
    \/ Del
    \/ DelKeyError
    \/ CallThing
    \/ IterDict
    \/ IterStr
    \/ IterList
    \/ IterOther
    \/ Return

Spec == Init /\ [][Next]_vars

\* The script runs without waiting on anything: a step that can be taken is taken.
FairSpec == Spec /\ WF_vars(Next)

----------------------------------------------------------------------------
\* A second render pass in the same process

\* thing(x, 4) once more after the first call returned, nothing reset in between
Again ==
    /\ pc = "done"
    /\ run = 1
    /\ run' = 2
    /\ x1' = x
    /\ out1' = out
    /\ out' = <<>>
    /\ stack' = << Call(x, 0, StartDepth) >>
    /\ maxActive' = 1
    /\ pc' = "running"
    /\ UNCHANGED <<x, docs, last>>

NextTwice == Next \/ Again

SpecTwice == Init /\ [][NextTwice]_vars

----------------------------------------------------------------------------
\* A second run of the script, on a document that differs in one leaf

\* Positions of d outside the description entry
Ordinary(d) ==
    LET j == CHOOSE n \in DOMAIN d : d[n].lvl = 1 /\ d[n].k = KeyDescription
    IN  DOMAIN d \ SubtreePos(d, j)

\* The values a leaf can have, each with what isinstance tells of it
LeafValues == UNION { { <<t, v>> : v \in Values(t) } : t \in Types \ {"dict"} }

\* d with the value of the leaf at position j replaced by another leaf value
Retyped(d, j) ==
    { [d EXCEPT ![j].t = tv[1], ![j].s = tv[2].s, ![j].l = tv[2].l] :
        tv \in { u \in LeafValues : u[1] # d[j].t \/ u[2].l # d[j].l } }

\* The documents that differ from d in one leaf: its value replaced, or the
\* leaf left out.
Edits(d) ==
    UNION { Retyped(d, j) \cup { SelectPos(d, DOMAIN d \ {j}) } :
            j \in { n \in Ordinary(d) : d[n].t # "dict" } }

\* The script is started again (a new process: last = None) on the edited file
Restart ==
    /\ pc = "done"
    /\ run = 1
    /\ run' = 2
    /\ x1' = x
    /\ out1' = out
    /\ \E e \in Edits(docs) : docs' = e /\ x' = e
    /\ last' = "None"
    /\ out' = <<>>
    /\ stack' = <<>>
    /\ maxActive' = 0
    /\ pc' = "loaded"

NextPair == Next \/ Restart

SpecPair == Init /\ [][NextPair]_vars

----------------------------------------------------------------------------
\* What the properties speak of

Text(o) == [n \in DOMAIN o |-> o[n].text]

NodeOf(d, id) == d[PosOfId(d, id)]

Ids(d) == { d[j].id : j \in DOMAIN d }

\* Number of heading markers a line starts with
Markers(t) == Cardinality({ n \in DOMAIN t : \A m \in 1..n : t[m] = "#" })

\* Positions of the output's heading lines
Headings(o) == { p \in DOMAIN o : o[p].kind = "heading" }

\* The heading at position p of o has the extra blank line right before it
PreAt(o, p) == p > 1 /\ o[p - 1].kind = "pre" /\ o[p - 1].text = BlankText /\ o[p - 1].src = o[p].src

\* The Section with this id was rendered with the extra blank line before its heading
PreBlank(o, id) == \E p \in Headings(o) : o[p].src = id /\ PreAt(o, p)

\* Positions in d of the earlier keys of the mapping that holds position j
EarlierSiblings(d, j) == { m \in 1..(j - 1) : ParentPos(d, m) = ParentPos(d, j) }

GreatestOf(S) == CHOOSE a \in S : \A b \in S : b <= a

\* The variant of the supported node nearest before the node id in document
\* order, "None" when there is none
LastBefore(d, id) ==
    LET S == { j \in 1..(PosOfId(d, id) - 1) : d[j].t \in Supported }
    IN  IF S = {} THEN "None" ELSE d[GreatestOf(S)].t

\* The variant of the last supported node of the subtree at position j
LastWithin(d, j) ==
    d[GreatestOf({ n \in SubtreePos(d, j) : d[n].t \in Supported })].t

SubtreeIds(d, j) == { d[n].id : n \in SubtreePos(d, j) }

Leafy == {"str", "list"}

\* The document {settings: {timeout: "30s"}}
IsSettingsDoc(d) ==
    /\ Len(d) = 2
    /\ d[1].lvl = 1 /\ d[1].t = "dict" /\ d[1].k = <<"s","e","t","t","i","n","g","s">>
    /\ d[2].lvl = 2 /\ d[2].t = "str" /\ d[2].k = <<"t","i","m","e","o","u","t">>
    /\ d[2].s = <<"3","0","s">>

TimeoutBullet == <<"-"," ",Grave,"t","i","m","e","o","u","t",Grave,":"," ","3","0","s">>

----------------------------------------------------------------------------
\* C1 as stated: rendering {settings: {timeout: "30s"}} with the root call at
\* depth 4 prints a Settings heading of 5 markers, a blank line and the timeout
\* bullet, and every Section that is a direct child of the root gets 5 markers.
C1_FiveMarkers ==
    /\ (pc = "done" /\ IsSettingsDoc(x)) =>
          Text(out) = << <<"#","#","#","#","#"," ","S","e","t","t","i","n","g","s">>,
                         <<>>,
                         TimeoutBullet >>
    /\ \A p \in Headings(out) :
          NodeOf(x, out[p].src).lvl = 1 => Markers(out[p].text) = 5

\* C1 amended: the same three lines, but the Settings heading has 4 markers, and
\* every Section that is a direct child of the root rendered at depth 4 gets a
\* heading of 4 markers.
C1_FourMarkers ==
    /\ (pc = "done" /\ IsSettingsDoc(x)) =>
          Text(out) = << <<"#","#","#","#"," ","S","e","t","t","i","n","g","s">>,
                         <<>>,
                         TimeoutBullet >>
    /\ \A p \in Headings(out) :
          NodeOf(x, out[p].src).lvl = 1 => Markers(out[p].text) = 4

\* C1 witness: the settings document has been rendered to its end.
C1_Witness == pc = "done" /\ IsSettingsDoc(x) /\ Len(out) = 3

----------------------------------------------------------------------------
\* C2 as stated: the extra blank line is printed before the heading of a Section
\* child exactly when the child has a previous sibling and the immediately
\* preceding sibling is a Section.
C2_BlankAfterSectionSibling ==
    \A p \in Headings(out) :
        LET j == PosOfId(x, out[p].src)
            E == EarlierSiblings(x, j)
        IN  PreAt(out, p) <=> (E # {} /\ x[GreatestOf(E)].t = "dict")

\* C2 amended: the extra blank line is printed before the heading of a Section
\* child C exactly when C has an earlier sibling of a supported type and the
\* nearest such sibling is a Description or a Verbatim block, or is a Section
\* whose last rendered node is a Description or a Verbatim block. So [Description, B]
\* and [Verbatim block, B] get the blank line before B and [empty Section A, B]
\* does not.
C2_BlankAfterLeaf ==
    \A p \in Headings(out) :
        LET j == PosOfId(x, out[p].src)
            E == { m \in EarlierSiblings(x, j) : x[m].t \in Supported }
        IN  IF E = {} THEN ~PreAt(out, p)
            ELSE IF x[GreatestOf(E)].t \in Leafy THEN PreAt(out, p)
            ELSE PreAt(out, p) <=> LastWithin(x, GreatestOf(E)) \in Leafy

\* C2 witness: [Description, Section B, Section C] rendered: B has the blank line
\* before its heading, C (after the empty Section B) has not.
C2_Witness ==
    /\ pc = "done"
    /\ Len(x) = 3
    /\ x[1].lvl = 1 /\ x[2].lvl = 1 /\ x[3].lvl = 1
    /\ x[1].t = "str" /\ x[2].t = "dict" /\ x[3].t = "dict"
    /\ PreBlank(out, x[2].id)
    /\ \E p \in Headings(out) : out[p].src = x[3].id /\ ~PreAt(out, p)

----------------------------------------------------------------------------
\* C9: every active call thing(node, depth) of a Section enclosed by k Sections
\* below the root has depth = 4 + k + 1 (the root call has depth 4); every heading
\* line consists of exactly as many markers as the depth of the call that prints
\* it, i.e. 4 + k for a Section enclosed by k Sections, then one space, then the
\* title-cased key; and every heading line is followed at once by a blank line.
C9_DepthRule ==
    /\ \A n \in DOMAIN stack :
          stack[n].i = IF stack[n].node = 0 THEN StartDepth
                       ELSE StartDepth + NodeOf(x, stack[n].node).lvl
    /\ \A p \in Headings(out) :
          LET nd == NodeOf(x, out[p].src)
              m  == StartDepth + (nd.lvl - 1)
              t  == out[p].text
          IN  /\ Markers(t) = m
              /\ Len(t) = m + 1 + Len(nd.k)
              /\ t[m + 1] = " "
              /\ nd.k = <<"a","p","i","_","d","o","c","s">> =>
                    SubSeq(t, m + 2, Len(t)) = <<"A","p","i"," ","D","o","c","s">>
              /\ nd.k = <<"t","i","m","e","o","u","t">> =>
                    SubSeq(t, m + 2, Len(t)) = <<"T","i","m","e","o","u","t">>
              /\ nd.k = <<"s","e","t","t","i","n","g","s">> =>
                    SubSeq(t, m + 2, Len(t)) = <<"S","e","t","t","i","n","g","s">>
              /\ p + 1 \in DOMAIN out
              /\ out[p + 1].text = BlankText
              /\ out[p + 1].kind = "post"

\* C9 witness: a Section two Sections below the root, keyed api_docs, has been
\* rendered with 6 markers.
C9_Witness ==
    /\ pc = "done"
    /\ \E p \in Headings(out) :
          /\ NodeOf(x, out[p].src).lvl = 3
          /\ NodeOf(x, out[p].src).k = <<"a","p","i","_","d","o","c","s">>
          /\ Markers(out[p].text) = 6

----------------------------------------------------------------------------
\* C10: in the single render pass of the script (tracker None at its start) the
\* extra blank line is printed right before a Section's heading exactly when a
\* supported node was processed before it and the most recent one, at whatever
\* level, is a Description or a Verbatim block (an empty list included; nodes of
\* unsupported type do not count). The first child of a Section never gets it,
\* and the extra blank line is printed nowhere else.
C10_TrackerSemantics ==
    /\ \A p \in Headings(out) :
          PreAt(out, p) <=> LastBefore(x, out[p].src) \in Leafy
    /\ \A p \in Headings(out) :
          EarlierSiblings(x, PosOfId(x, out[p].src)) = {} => ~PreAt(out, p)
    /\ \A p \in DOMAIN out :
          out[p].kind = "pre" => p + 1 \in Headings(out) /\ out[p + 1].src = out[p].src

\* C10 witness: [empty list, unsupported value, Section] rendered: the Section
\* got the blank line, the most recent supported node being the empty list.
C10_Witness ==
    /\ pc = "done"
    /\ Len(x) = 3
    /\ x[1].t = "list" /\ x[1].l = <<>>
    /\ x[2].t = "other" /\ x[2].lvl = 1
    /\ x[3].t = "dict" /\ x[3].lvl = 1
    /\ PreBlank(out, x[3].id)

----------------------------------------------------------------------------
\* Positions of the output lines that come from the node id
LinesOf(o, id) == { p \in DOMAIN o : o[p].src = id }

\* The texts of the verbatim lines of the node id, in output order
VerbatimOf(o, id) ==
    LET IsOfNode(e) == e.src = id /\ e.kind = "verbatim"
    IN  Text(SelectSeq(o, IsOfNode))

\* C4: the output is a pre-order traversal. The heading of a Section S and the
\* blank line after it come before every line of a descendant of S; all lines of
\* a node and its descendants come before any line of a later sibling and its
\* descendants, so that siblings appear in key order; the elements of a Verbatim
\* block appear in list order; and when the pass has ended every Section has its
\* heading, every Description its bullet and every Verbatim block all its lines.
C4_PreOrder ==
    /\ \A p \in Headings(out) :
          LET j == PosOfId(x, out[p].src)
          IN  /\ p + 1 \in DOMAIN out
              /\ out[p + 1].src = out[p].src
              /\ out[p + 1].text = BlankText
              /\ \A q \in DOMAIN out :
                    out[q].src \in SubtreeIds(x, j) \ {x[j].id} => q > p + 1
    /\ \A b \in DOMAIN x : \A a \in EarlierSiblings(x, b) :
          \A p, q \in DOMAIN out :
              (out[p].src \in SubtreeIds(x, a) /\ out[q].src \in SubtreeIds(x, b)) => p < q
    /\ \A j \in DOMAIN x :
          (x[j].t = "list" /\ LinesOf(out, x[j].id) # {}) => VerbatimOf(out, x[j].id) = x[j].l
    /\ pc = "done" =>
          \A j \in DOMAIN x :
              /\ x[j].t = "dict" =>
                    Cardinality({ p \in Headings(out) : out[p].src = x[j].id }) = 1
              /\ x[j].t = "str" =>
                    /\ Cardinality(LinesOf(out, x[j].id)) = 1
                    /\ \A p \in LinesOf(out, x[j].id) : out[p].text = BulletText(x[j].k, x[j].s)
              /\ x[j].t = "list" => VerbatimOf(out, x[j].id) = x[j].l

\* C4 witness: [Section S {Verbatim block of two lines}, Description] rendered:
\* heading, blank line, the two lines, the bullet.
C4_Witness ==
    /\ pc = "done"
    /\ Len(x) = 3
    /\ x[1].t = "dict" /\ x[2].lvl = 2 /\ x[2].t = "list" /\ Len(x[2].l) = 2
    /\ x[3].lvl = 1 /\ x[3].t = "str"
    /\ [n \in DOMAIN out |-> out[n].src] = <<x[1].id, x[1].id, x[2].id, x[2].id, x[3].id>>
    /\ out[3].text = <<"l","i","n","e"," ","o","n","e">>
    /\ out[4].text = <<"l","i","n","e"," ","t","w","o">>

----------------------------------------------------------------------------
\* C5 as stated: when the loop of thing comes to a child whose value is neither a
\* mapping, a string nor a list, rendering stops with an error; the child is not
\* skipped with rendering going on.
C5_FailFast ==
    [][(HasItem /\ Cur.t \notin Supported) => (pc' = "error" /\ out' = out)]_vars

----------------------------------------------------------------------------
\* The description entry of the loaded docs object, and the ids of all it holds
DescPos == CHOOSE n \in DOMAIN docs : docs[n].lvl = 1 /\ docs[n].k = KeyDescription

DescIds == SubtreeIds(docs, DescPos)

\* The text is a heading titled Description, or a bullet of the key description
NamesDescription(t) ==
    \/ /\ Markers(t) > 0
       /\ SubSeq(t, Markers(t) + 1, Len(t)) = <<" ","D","e","s","c","r","i","p","t","i","o","n">>
    \/ /\ Len(t) >= 15
       /\ SubSeq(t, 1, 15) = <<"-"," ",Grave,"d","e","s","c","r","i","p","t","i","o","n",Grave>>

\* C6: whatever the type of the value of the top-level description key, no output
\* line comes from that entry or from anything it holds, and no line names it;
\* when the pass has ended, every other key of the loaded object is rendered as
\* its type demands, at the depth of its own level: a Section by one heading, a
\* Description by one bullet, a Verbatim block by its lines.
C6_ReservedKey ==
    (pc \notin {"parsing", "error"} /\ HasDescription(docs)) =>
        /\ \A p \in DOMAIN out : out[p].src \notin DescIds /\ ~NamesDescription(out[p].text)
        /\ pc = "done" =>
              \A j \in DOMAIN docs \ SubtreePos(docs, DescPos) :
                  /\ docs[j].t = "dict" =>
                        \E p \in Headings(out) :
                            /\ out[p].src = docs[j].id
                            /\ out[p].text = HeadingText(StartDepth + docs[j].lvl - 1, docs[j].k)
                  /\ docs[j].t = "str" =>
                        \E p \in DOMAIN out :
                            /\ out[p].src = docs[j].id
                            /\ out[p].text = BulletText(docs[j].k, docs[j].s)
                  /\ docs[j].t = "list" => VerbatimOf(out, docs[j].id) = docs[j].l
                  /\ docs[j].t = "other" => LinesOf(out, docs[j].id) = {}

\* C6 witness: a docs object whose description is a mapping that holds a key,
\* with a key before it and a key after it, rendered to the end.
C6_Witness ==
    /\ pc = "done"
    /\ Len(docs) = 4
    /\ docs[2].k = KeyDescription /\ docs[2].t = "dict"
    /\ docs[3].lvl = 2 /\ docs[3].t = "str"
    /\ docs[1].t = "str" /\ docs[4].t = "dict" /\ docs[4].lvl = 1
    /\ [n \in DOMAIN out |-> out[n].src] = <<1, 4, 4, 4>>

----------------------------------------------------------------------------
Max(S) == IF S = {} THEN 0 ELSE GreatestOf(S)

\* Number of nested Section levels of the object d: the object itself and the
\* deepest chain of mappings in it
SectionLevels(d) == 1 + Max({ d[j].lvl : j \in { n \in DOMAIN d : d[n].t = "dict" } })

\* C7: never more calls of thing are active than the tree has nested Section
\* levels, and a render pass that has begun comes to its end with every call
\* returned, the greatest number of simultaneously active calls having been
\* exactly the number of nested Section levels.
C7_Termination ==
    /\ [](Len(stack) <= SectionLevels(x))
    /\ (pc = "running") ~> (pc = "done" /\ stack = <<>> /\ maxActive = SectionLevels(x))

\* C7 witness: a pass over three nested Section levels has ended.
C7_Witness == pc = "done" /\ stack = <<>> /\ SectionLevels(x) = 3 /\ maxActive = 3

----------------------------------------------------------------------------
\* C3 as stated: a second call thing(x, 4) after the first, nothing reset in
\* between, prints the same lines as the first.
C3_SameOutputTwice == (run = 2 /\ pc = "done") => Text(out) = Text(out1)

----------------------------------------------------------------------------
\* Ids of the Sections rendered in both runs
CommonSections == { id \in Ids(x1) \cap Ids(x) : NodeOf(x, id).t = "dict" }

\* The variants of the earlier siblings of the node id, in key order
SiblingVariants(d, id) ==
    LET E == SortedSeq(EarlierSiblings(d, PosOfId(d, id)))
    IN  [n \in DOMAIN E |-> d[E[n]].t]

====
